---- MODULE Spec2Model ----
(***************************************************************************)
(* PyQt-Figma-Designer: the generator composition framework.               *)
(*                                                                         *)
(*   Spec      - the identifier registry (DesignGenerator.create_name)     *)
(*   SpecNorm  - one create_name call on an empty registry, any raw name   *)
(*   SpecBounds - generator nodes and their parent-relative bounds         *)
(*   SpecTree  - frames, their children and the frames' design pass        *)
(*   SpecButton - groups and the custom buttons constructed over them      *)
(*   SpecRuntime - the window guard and button callbacks of the generated  *)
(*                program, interpreted statement by statement              *)
(*   SpecVector - vector nodes, their svg files and design lines           *)
(*   SpecRuns  - one document after another generated in one process      *)
(*   SpecPasses - the productions of a text and a button, in any order     *)
(***************************************************************************)
EXTENDS Integers, Sequences, FiniteSets, TLC

VARIABLES
    used_names,     \* DesignGenerator.used_names: the set of identifiers handed out
    calls,          \* history of create_name calls: <<[raw, base, ret]>>
    gens,           \* the generator nodes built so far, in construction order
    scale,          \* config.scale, in units of 1/ScaleDen
    observed,       \* the last bounds / pyqt_bounds read: [node, bounds, qrect]
    windows,        \* FrameGenerator.windows: figma node id -> window class name
    raised,         \* the exception that ended the generation run, if any
    is_singleton_open,  \* generated program: the window class's is_singleton_open
    instances,      \* generated program: the windows setupUi was called for
    clicks,         \* generated program: calls of the button's click handler
    graphic_counter,    \* SvgGenerator.graphic_counter
    svg_counter,    \* VectorGenerator.svg_counter
    svg_files,      \* the svg files written: <<[filename, lines]>>
    design_stream,  \* the design lines of the vector nodes visited so far
    warnings,       \* the warnings logged: the graphic types not recognised
    runs,           \* the generation runs completed in this process
    attrs,          \* per generator, the attributes its productions have set
    emitted         \* the handler and controller entries produced so far

varsRegistry == <<used_names, calls>>
varsTree == <<gens, scale, observed, windows, raised>>
varsRuntime == <<is_singleton_open, instances, clicks>>
varsVector == <<graphic_counter, svg_counter, svg_files, design_stream, warnings>>
varsPasses == <<runs, attrs, emitted>>
vars == <<used_names, calls, gens, scale, observed, windows, raised,
          is_singleton_open, instances, clicks,
          graphic_counter, svg_counter, svg_files, design_stream, warnings,
          runs, attrs, emitted>>

(***************************************************************************)
(* Bounds                                                                  *)
(***************************************************************************)
MaxCalls == 4       \* create_name calls in one run of Spec
MaxRawLen == 3      \* length of the raw names tried in SpecNorm
MaxBoundsNodes == 3 \* generator nodes built in SpecBounds
MaxTreeNodes == 5   \* generator nodes built in SpecTree
MaxButtonNodes == 8 \* generator nodes built in SpecButton
MaxGroups == 2      \* groups built in SpecButton
MaxGroupChildren == 5   \* children of the button's group in SpecRuntime
MaxInstances == 2   \* windows the generated program sets up in SpecRuntime
MaxClicks == 2      \* click-handler calls counted in SpecRuntime
MaxVectorNodes == 3 \* vector nodes built in SpecVector
MaxRuns == 2        \* generation runs in SpecRuns
MaxRunVectors == 2  \* vector nodes of a document in SpecRuns
MaxEmitted == 4     \* productions run in SpecPasses

(***************************************************************************)
(* Characters.  A name is a sequence of one-character strings.             *)
(***************************************************************************)
LowerLetters == {"a", "v", "i", "e", "w"}
UpperLetters == {"A", "V", "I", "E", "W"}
Digits == {"0", "1", "2", "3", "4", "5", "6", "7", "8", "9"}
\* the characters raw names are built from: letters of both cases, a digit,
\* the underscore, the space and a punctuation character
RawChars == {"a", "A", "0", "_", " ", "-"}

\* str.lower() on one character
Lower(c) ==
    CASE c = "A" -> "a" [] c = "V" -> "v" [] c = "I" -> "i" [] c = "E" -> "e" [] c = "W" -> "w"
      [] OTHER -> c

\* str.upper() on one character
Upper(c) ==
    CASE c = "a" -> "A" [] c = "v" -> "V" [] c = "i" -> "I" [] c = "e" -> "E" [] c = "w" -> "W"
      [] OTHER -> c

\* a cased character
IsLetter(c) == c \in LowerLetters \cup UpperLetters

\* str.isalnum() on one character
IsAlnum(c) == c \in LowerLetters \cup UpperLetters \cup Digits

\* str.isdigit() on one character
IsDigit(c) == c \in Digits

\* str(i) for a natural number i
DigitChar(d) ==
    CASE d = 0 -> "0" [] d = 1 -> "1" [] d = 2 -> "2" [] d = 3 -> "3" [] d = 4 -> "4"
      [] d = 5 -> "5" [] d = 6 -> "6" [] d = 7 -> "7" [] d = 8 -> "8" [] d = 9 -> "9"

RECURSIVE IntToStr(_)
IntToStr(i) == IF i < 10 THEN <<DigitChar(i)>> ELSE IntToStr(i \div 10) \o <<DigitChar(i % 10)>>

(***************************************************************************)
(* The normalisation steps of create_name                                  *)
(***************************************************************************)
\* figma_node['name'].replace(' ', '_').lower()
ReplaceSpacesLower(s) == [k \in 1..Len(s) |-> Lower(IF s[k] = " " THEN "_" ELSE s[k])]

\* ''.join(c for c in view_name if c.isalnum() or c == '_')
KeepAlnumUnderscore(s) == SelectSeq(s, LAMBDA c : IsAlnum(c) \/ c = "_")

\* '__' in view_name
HasDoubleUnderscore(s) == \E k \in 1..(Len(s) - 1) : s[k] = "_" /\ s[k + 1] = "_"

\* view_name.replace('__', '_'): non-overlapping occurrences, left to right
RECURSIVE ReplaceDoubleUnderscore(_)
ReplaceDoubleUnderscore(s) ==
    IF Len(s) < 2 THEN s
    ELSE IF s[1] = "_" /\ s[2] = "_"
         THEN <<"_">> \o ReplaceDoubleUnderscore(SubSeq(s, 3, Len(s)))
         ELSE <<s[1]>> \o ReplaceDoubleUnderscore(Tail(s))

\* while '__' in view_name: view_name = view_name.replace('__', '_')
RECURSIVE CollapseUnderscores(_)
CollapseUnderscores(s) ==
    IF HasDoubleUnderscore(s) THEN CollapseUnderscores(ReplaceDoubleUnderscore(s)) ELSE s

\* while view_name.startswith('_'): view_name = view_name[1:]
RECURSIVE StripLeading(_)
StripLeading(s) == IF Len(s) > 0 /\ s[1] = "_" THEN StripLeading(Tail(s)) ELSE s

\* while view_name.endswith('_'): view_name = view_name[:-1]
RECURSIVE StripTrailing(_)
StripTrailing(s) ==
    IF Len(s) > 0 /\ s[Len(s)] = "_" THEN StripTrailing(SubSeq(s, 1, Len(s) - 1)) ELSE s

\* if view_name == '': view_name = 'view'
DefaultIfEmpty(s) == IF s = <<>> THEN <<"v", "i", "e", "w">> ELSE s

\* if view_name[0].isdigit(): view_name = '_' + view_name
GuardLeadingDigit(s) == IF IsDigit(s[1]) THEN <<"_">> \o s ELSE s

\* a plausible slip: the digit guard runs before the underscores are stripped
NormalizeGuardBeforeStrip(raw) ==
    DefaultIfEmpty(StripTrailing(StripLeading(
        LET s == CollapseUnderscores(KeepAlnumUnderscore(ReplaceSpacesLower(raw)))
        IN  IF s # <<>> /\ IsDigit(s[1]) THEN <<"_">> \o s ELSE s)))

\* lines 93-104: the normalised candidate of a raw node name
Normalize(raw) ==
    GuardLeadingDigit(DefaultIfEmpty(StripTrailing(StripLeading(
        CollapseUnderscores(KeepAlnumUnderscore(ReplaceSpacesLower(raw)))))))

\* f'{view_name}_{i}'
Suffixed(base, i) == base \o <<"_">> \o IntToStr(i)

\* a plausible slip: the registry is consulted once ('if' for 'while')
DisambiguateOnce(base, used) == IF base \in used THEN Suffixed(base, 0) ELSE base

\* lines 105-110: the loop  i = 0; while new_name in used_names: new_name = f'{view_name}_{i}'; i += 1
\* It leaves with the base itself when it is free, else with the first free suffix.
RECURSIVE FirstFreeSuffix(_, _, _)
FirstFreeSuffix(base, used, i) ==
    IF Suffixed(base, i) \in used THEN FirstFreeSuffix(base, used, i + 1) ELSE Suffixed(base, i)

\* a plausible slip: the suffix loop runs at least once (do-while for while)
DisambiguateAlwaysSuffix(base, used) == FirstFreeSuffix(base, used, 0)

\* a plausible slip: the suffix counter starts at 1
DisambiguateFromOne(base, used) == IF base \in used THEN FirstFreeSuffix(base, used, 1) ELSE base

Disambiguate(base, used) == IF base \in used THEN FirstFreeSuffix(base, used, 0) ELSE base

\* what create_name returns for a raw name under a registry
CreateNameResult(raw, used) == Disambiguate(Normalize(raw), used)

(***************************************************************************)
(* Generator nodes                                                         *)
(***************************************************************************)
\* config.scale is a float; the model takes it in halves
ScaleDen == 2
Scales == {1, 3, 4}     \* 0.5, 1.5, 2

NoBox == [absent |-> TRUE]
NoObservation == [node |-> 0]
NoException == [node |-> 0]

Box(x, y, w, h) == [x |-> x, y |-> y, width |-> w, height |-> h]

\* absolute bounding boxes of document nodes: the boxes of the worked example,
\* one at a negative offset with odd sides, and a node that carries none
Boxes ==
    { Box(100, 50, 200, 100), Box(110, 60, 10, 20), Box(-3, 7, 5, 1), NoBox }

\* figma_node.get('absoluteBoundingBox', {'x': 0, 'y': 0, 'width': 0, 'height': 0})
AbsoluteBoundingBox(figma_node) ==
    IF figma_node.box = NoBox THEN Box(0, 0, 0, 0) ELSE figma_node.box

\* str.title() after replace('_', ' '), then replace(' ', ''): every letter that
\* does not follow a letter is upper-cased, the others lower-cased, and the
\* underscores are dropped
ShortClassName(name) ==
    LET titled == [k \in 1..Len(name) |->
                      IF k = 1 \/ ~ IsLetter(name[k - 1])
                      THEN Upper(name[k]) ELSE Lower(name[k])]
    IN  SelectSeq(titled, LAMBDA c : c # "_")

\* DesignGenerator.__init__: the node as built, before it is linked to its parent
NewGenerator(g, kind, figma_node, parent, name) ==
    [ kind |-> kind,
      figma_node |-> figma_node,
      parent |-> parent,
      children |-> <<>>,
      q_widget_name |-> name,
      short_class_name |-> ShortClassName(name),
      controller_class_path |-> IF parent # 0 THEN g[parent].controller_class_path ELSE <<>>,
      handler_class_path |-> IF parent # 0 THEN g[parent].handler_class_path ELSE <<>>,
      strings_class_path |-> IF parent # 0 THEN g[parent].strings_class_path ELSE <<>>,
      config_class_path |-> IF parent # 0 THEN g[parent].config_class_path ELSE <<>>,
      window_class_name |-> <<>>,
      hide_show_mouse_over_generator |-> 0,
      hide_show_pressed_generator |-> 0,
      hide_show_disabled_generator |-> 0 ]

\* DesignGenerator.__init__: the nodes g with the new node appended and recorded in
\* its parent's children
WithGenerator(g, kind, figma_node, parent, name) ==
    LET self == Len(g) + 1
        linked == IF parent # 0
                  THEN [g EXCEPT ![parent].children = Append(@, self)]
                  ELSE g
    IN  Append(linked, NewGenerator(g, kind, figma_node, parent, name))

\* the root ancestor of a node
RECURSIVE RootOf(_)
RootOf(n) == IF gens[n].parent = 0 THEN n ELSE RootOf(gens[n].parent)

\* a plausible slip: the offset is taken from the root of the tree
BoundsFromRoot(n) ==
    LET origin == IF gens[n].parent # 0
                  THEN AbsoluteBoundingBox(gens[RootOf(n)].figma_node)
                  ELSE Box(0, 0, 0, 0)
        b == AbsoluteBoundingBox(gens[n].figma_node)
    IN  <<(b.x - origin.x) * scale, (b.y - origin.y) * scale, b.width * scale, b.height * scale>>

\* DesignGenerator.bounds, each value in units of 1/ScaleDen
Bounds(n) ==
    LET origin == IF gens[n].parent # 0
                  THEN AbsoluteBoundingBox(gens[gens[n].parent].figma_node)
                  ELSE Box(0, 0, 0, 0)
        b == AbsoluteBoundingBox(gens[n].figma_node)
    IN  <<(b.x - origin.x) * scale, (b.y - origin.y) * scale, b.width * scale, b.height * scale>>

\* a plausible slip: floor for int()
IntOfFloor(num) == num \div ScaleDen

\* int(v) for v = num / ScaleDen: truncation towards zero
IntOf(num) == IF num >= 0 THEN num \div ScaleDen ELSE -((-num) \div ScaleDen)

\* DesignGenerator.pyqt_bounds: the four arguments of the emitted QRect
PyqtBounds(n) == [k \in 1..4 |-> IntOf(Bounds(n)[k])]

(***************************************************************************)
(* Inputs                                                                  *)
(***************************************************************************)
\* node names of the documents generated in Spec: three spellings of the base
\* a, a name that has the shape of a suffixed one, one with a leading digit,
\* and one with nothing legal in it
NodeNames ==
    { <<"a">>, <<"A">>, <<"a", " ">>, <<"a", "_", "0">>, <<"a", " ", "0">>,
      <<"0">>, <<"-">> }

RECURSIVE SeqsUpTo(_, _)
SeqsUpTo(S, n) ==
    IF n = 0 THEN {<<>>}
    ELSE LET shorter == SeqsUpTo(S, n - 1)
         IN  shorter \cup {Append(s, c) : s \in {t \in shorter : Len(t) = n - 1}, c \in S}

\* every raw name of at most MaxRawLen characters
RawNames == SeqsUpTo(RawChars, MaxRawLen)

(***************************************************************************)
(* The registry                                                            *)
(***************************************************************************)
RegistryInit ==
    /\ used_names = {}
    /\ calls = <<>>

\* no generator built, nothing read; the scale is left at 1
TreeIdle ==
    /\ gens = <<>>
    /\ scale = ScaleDen
    /\ observed = NoObservation
    /\ windows = <<>>
    /\ raised = NoException

\* the generated program has not been started
RuntimeIdle ==
    /\ is_singleton_open = FALSE
    /\ instances = <<>>
    /\ clicks = 0

\* no vector written: the class counters as the class bodies leave them
VectorIdle ==
    /\ graphic_counter = 0
    /\ svg_counter = 0
    /\ svg_files = <<>>
    /\ design_stream = <<>>
    /\ warnings = <<>>

\* no run completed, no production run
PassesIdle ==
    /\ runs = <<>>
    /\ attrs = <<>>
    /\ emitted = <<>>

Init ==
    /\ RegistryInit
    /\ TreeIdle
    /\ RuntimeIdle
    /\ VectorIdle
    /\ PassesIdle

\* DesignGenerator.create_name(figma_node) with figma_node['name'] = raw
DoCreateName(raw) ==
    LET ret == CreateNameResult(raw, used_names)
    IN  /\ used_names' = used_names \cup {ret}
        /\ calls' = Append(calls, [raw |-> raw, base |-> Normalize(raw), ret |-> ret])
        /\ UNCHANGED <<varsTree, varsRuntime, varsVector, varsPasses>>

CreateName ==
    \E raw \in NodeNames :
        /\ Len(calls) < MaxCalls
        /\ DoCreateName(raw)

Next == CreateName

Spec == Init /\ [][Next]_vars

\* one call on the empty registry, for any raw name
CreateNameFirst ==
    \E raw \in RawNames :
        /\ calls = <<>>
        /\ DoCreateName(raw)

NextNorm == CreateNameFirst

SpecNorm == Init /\ [][NextNorm]_vars

(***************************************************************************)
(* SpecBounds: nodes are built under one another and their bounds read     *)
(***************************************************************************)
InitBounds ==
    /\ RegistryInit
    /\ gens = <<>>
    /\ scale \in Scales
    /\ observed = NoObservation
    /\ windows = <<>>
    /\ raised = NoException
    /\ RuntimeIdle
    /\ VectorIdle
    /\ PassesIdle

\* DesignGenerator(figma_node, parent): a node of the base class
Construct ==
    \E parent \in 0..Len(gens), box \in Boxes :
        LET figma_node == [id |-> Len(gens) + 1, name |-> <<"a">>, box |-> box]
            name == CreateNameResult(figma_node.name, used_names)
        IN  /\ Len(gens) < MaxBoundsNodes
            /\ used_names' = used_names \cup {name}
            /\ gens' = WithGenerator(gens, "Node", figma_node, parent, name)
            /\ UNCHANGED <<calls, scale, observed, windows, raised, varsRuntime, varsVector, varsPasses>>

\* reading node.bounds and node.pyqt_bounds
ReadBounds ==
    \E n \in 1..Len(gens) :
        /\ observed' = [node |-> n, bounds |-> Bounds(n), qrect |-> PyqtBounds(n)]
        /\ UNCHANGED <<used_names, calls, gens, scale, windows, raised, varsRuntime, varsVector, varsPasses>>

NextBounds == Construct \/ ReadBounds

SpecBounds == InitBounds /\ [][NextBounds]_vars

(***************************************************************************)
(* SpecTree: frames, the nodes under them and the frames' design pass      *)
(***************************************************************************)
\* the one node name and box used where the claims do not depend on them
PlainFigmaNode(id) == [id |-> id, name |-> <<"a">>, box |-> Box(100, 50, 200, 100)]

QWindowPrefix == <<"Q", "W", "i", "n", "d", "o", "w">>
HandlerSuffix == <<"H", "a", "n", "d", "l", "e", "r">>
ControllerSuffix == <<"C", "o", "n", "t", "r", "o", "l", "l", "e", "r">>
StringsSuffix == <<"S", "t", "r", "i", "n", "g", "s">>
ConfigSuffix == <<"C", "o", "n", "f", "i", "g">>

\* a class path is the sequence of its dotted segments: f'{path}.{segment}'
Dotted(path, segment) == Append(path, segment)

\* windows[id] = name
MapSet(map, id, name) ==
    [k \in (DOMAIN map) \cup {id} |-> IF k = id THEN name ELSE map[k]]

\* FrameGenerator.__init__: the base constructor with parent None, then
\* window_class_name = f'QWindow{self.short_class_name}'
WithFrame(g, figma_node, name) ==
    LET built == WithGenerator(g, "Frame", figma_node, 0, name)
    IN  [built EXCEPT ![Len(built)].window_class_name =
                          QWindowPrefix \o built[Len(built)].short_class_name]

\* FrameGenerator(figma_node): a root-level frame
NewFrame ==
    LET self == Len(gens) + 1
        figma_node == PlainFigmaNode(self)
        name == CreateNameResult(figma_node.name, used_names)
        built == WithFrame(gens, figma_node, name)
    IN  /\ raised = NoException
        /\ Len(gens) < MaxTreeNodes
        /\ used_names' = used_names \cup {name}
        /\ gens' = built
        /\ windows' = MapSet(windows, figma_node.id, built[self].window_class_name)
        /\ UNCHANGED <<calls, scale, observed, raised, varsRuntime, varsVector, varsPasses>>

\* DesignGenerator(figma_node, parent): a node of another kind under a parent
NewNode ==
    \E parent \in 1..Len(gens) :
        LET figma_node == PlainFigmaNode(Len(gens) + 1)
            name == CreateNameResult(figma_node.name, used_names)
        IN  /\ raised = NoException
            /\ Len(gens) < MaxTreeNodes
            /\ used_names' = used_names \cup {name}
            /\ gens' = WithGenerator(gens, "Node", figma_node, parent, name)
            /\ UNCHANGED <<calls, scale, observed, windows, raised, varsRuntime, varsVector, varsPasses>>

\* a plausible slip: the frame's design pass leaves its class paths alone
WithFramePathsKept(g, f) == g

\* FrameGenerator.generate_design, lines 37-40: the frame's four class paths
\* each get the segment of the frame's own namespace appended
WithFramePaths(g, f) ==
    [g EXCEPT
        ![f].handler_class_path = Dotted(@, g[f].short_class_name \o HandlerSuffix),
        ![f].controller_class_path = Dotted(@, g[f].short_class_name \o ControllerSuffix),
        ![f].strings_class_path = Dotted(@, g[f].short_class_name \o StringsSuffix),
        ![f].config_class_path = Dotted(@, g[f].short_class_name \o ConfigSuffix)]

\* FrameGenerator.generate_design: the class paths are extended, then
\* FactoryGenerator(self.figma_node, self) is built under the frame
WithFrameDesign(g, f, name) ==
    WithGenerator(WithFramePaths(g, f), "Factory", g[f].figma_node, f, name)

FrameGenerateDesign ==
    \E f \in 1..Len(gens) :
        LET name == CreateNameResult(gens[f].figma_node.name, used_names)
        IN  /\ raised = NoException
            /\ gens[f].kind = "Frame"
            /\ Len(gens) < MaxTreeNodes
            /\ used_names' = used_names \cup {name}
            /\ gens' = WithFrameDesign(gens, f, name)
            /\ UNCHANGED <<calls, scale, observed, windows, raised, varsRuntime, varsVector, varsPasses>>

NextTree == NewFrame \/ NewNode \/ FrameGenerateDesign

SpecTree == Init /\ [][NextTree]_vars

(***************************************************************************)
(* SpecButton: groups, their children and the buttons built over them      *)
(***************************************************************************)
Groups == {n \in 1..Len(gens) : gens[n].kind = "Group"}

\* GroupGenerator(figma_node, None): a container
NewGroup ==
    LET figma_node == PlainFigmaNode(Len(gens) + 1)
        name == CreateNameResult(figma_node.name, used_names)
    IN  /\ raised = NoException
        /\ Len(gens) < MaxButtonNodes
        /\ Cardinality(Groups) < MaxGroups
        /\ used_names' = used_names \cup {name}
        /\ gens' = WithGenerator(gens, "Group", figma_node, 0, name)
        /\ UNCHANGED <<calls, scale, observed, windows, raised, varsRuntime, varsVector, varsPasses>>

\* DesignGenerator(figma_node, group): a child of a group
NewGroupChild ==
    \E group \in Groups :
        LET figma_node == PlainFigmaNode(Len(gens) + 1)
            name == CreateNameResult(figma_node.name, used_names)
        IN  /\ raised = NoException
            /\ Len(gens) < MaxButtonNodes
            /\ used_names' = used_names \cup {name}
            /\ gens' = WithGenerator(gens, "Node", figma_node, group, name)
            /\ UNCHANGED <<calls, scale, observed, windows, raised, varsRuntime, varsVector, varsPasses>>

\* seq[-k]
FromEnd(seq, k) == seq[Len(seq) + 1 - k]

\* a plausible slip: the toggles are taken from the front of the children
WithTogglesFromFront(g, self, group) ==
    [g EXCEPT
        ![self].hide_show_mouse_over_generator = g[group].children[1],
        ![self].hide_show_pressed_generator = g[group].children[2],
        ![self].hide_show_disabled_generator = g[group].children[3]]

\* CustomButtonGenerator.__init__, lines 17-19: VisibilityGenerator(children[-1]),
\* (children[-2]), (children[-3])
WithToggles(g, self, group) ==
    [g EXCEPT
        ![self].hide_show_mouse_over_generator = FromEnd(g[group].children, 1),
        ![self].hide_show_pressed_generator = FromEnd(g[group].children, 2),
        ![self].hide_show_disabled_generator = FromEnd(g[group].children, 3)]

\* a plausible slip: the guard admits three children
TooFewChildrenBelowThree(n) == n < 3

\* line 15: len(group_generator.children) < 4
TooFewChildren(n) == n < 4

\* the nodes that own a widget a button can be placed in: a group is a pure
\* layout container and has none (the design names self.<parent.q_widget_name>)
WidgetNodes == {n \in 1..Len(gens) : gens[n].kind # "Group"}

\* CustomButtonGenerator.__init__: the base constructor, then the guard, then
\* the three toggles; a refused button stays as the base constructor left it
WithCustomButton(g, figma_node, parent, group, name) ==
    LET built == WithGenerator(g, "CustomButton", figma_node, parent, name)
    IN  IF TooFewChildren(Len(built[group].children))
        THEN built
        ELSE WithToggles(built, Len(built), group)

\* CustomButtonGenerator(figma_node, parent, group_generator)
NewCustomButton ==
    \E parent \in WidgetNodes, group \in Groups :
        LET self == Len(gens) + 1
            figma_node == PlainFigmaNode(self)
            name == CreateNameResult(figma_node.name, used_names)
            built == WithGenerator(gens, "CustomButton", figma_node, parent, name)
        IN  /\ raised = NoException
            /\ Len(gens) < MaxButtonNodes
            /\ used_names' = used_names \cup {name}
            /\ gens' = WithCustomButton(gens, figma_node, parent, group, name)
            /\ raised' = IF TooFewChildren(Len(built[group].children))
                         THEN [node |-> self, group |-> group,
                               nchildren |-> Len(built[group].children)]
                         ELSE raised
            /\ UNCHANGED <<calls, scale, observed, windows, varsRuntime, varsVector, varsPasses>>

NextButton == NewGroup \/ NewGroupChild \/ NewCustomButton

SpecButton == Init /\ [][NextButton]_vars

(***************************************************************************)
(* SpecRuntime: the program generated for one frame holding one button     *)
(***************************************************************************)
NamesOf(g) == {g[n].q_widget_name : n \in 1..Len(g)}

\* k more children under a group
RECURSIVE WithGroupChildren(_, _, _)
WithGroupChildren(g, group, k) ==
    IF k = 0 THEN g
    ELSE WithGroupChildren(
            WithGenerator(g, "Node", PlainFigmaNode(Len(g) + 1), group,
                          CreateNameResult(<<"a">>, NamesOf(g))),
            group, k - 1)

\* the tree generated for a frame (1) whose design pass built its factory
\* (2), with a group (3) of k children under it and a button over the group
ButtonTree(k) ==
    LET g1 == WithFrame(<<>>, PlainFigmaNode(1), CreateNameResult(<<"a">>, {}))
        g2 == WithFrameDesign(g1, 1, CreateNameResult(<<"a">>, NamesOf(g1)))
        g3 == WithGenerator(g2, "Group", PlainFigmaNode(3), 2,
                            CreateNameResult(<<"a">>, NamesOf(g2)))
        g4 == WithGroupChildren(g3, 3, k)
    IN  WithCustomButton(g4, PlainFigmaNode(Len(g4) + 1), 2, 3,
                         CreateNameResult(<<"a">>, NamesOf(g4)))

TheButton == Len(gens)
TheGroup == 3

\* the widgets the group's children stand for
ToggleWidgets == {gens[gens[TheGroup].children[k]].q_widget_name :
                     k \in 1..Len(gens[TheGroup].children)}

\* VisibilityGenerator(target).generate_set(value): one statement that shows
\* or hides the target's widget
GenerateSet(target, value) ==
    <<[op |-> "setVisible", widget |-> gens[target].q_widget_name, value |-> value]>>

Statement(op, value) == [op |-> op, widget |-> <<>>, value |-> value]

OverOf(b) == gens[b].hide_show_mouse_over_generator
PressedOf(b) == gens[b].hide_show_pressed_generator
DisabledOf(b) == gens[b].hide_show_disabled_generator

\* lines 27-37, 101-102, 128-130: the statements run when the button is set up
ButtonSetupCode(b) ==
    <<Statement("setMouseTracking", "True"), Statement("setEnabledFlag", "True"),
      Statement("connectClicked", "")>>
    \o GenerateSet(OverOf(b), "False")
    \o GenerateSet(PressedOf(b), "False")
    \o GenerateSet(DisabledOf(b), "False")

\* lines 40-44: __<name>_mouse_over, its body under 'if self.<name>_enabled'
MouseOverCode(b) ==
    [guarded |-> TRUE,
     body |-> GenerateSet(OverOf(b), "True") \o GenerateSet(PressedOf(b), "False")
              \o GenerateSet(DisabledOf(b), "False")]

\* lines 47-51: __<name>_mouse_leave
MouseLeaveCode(b) ==
    [guarded |-> TRUE,
     body |-> GenerateSet(OverOf(b), "False") \o GenerateSet(PressedOf(b), "False")
              \o GenerateSet(DisabledOf(b), "False")]

\* lines 54-58: __<name>_mouse_press
MousePressCode(b) ==
    [guarded |-> TRUE,
     body |-> GenerateSet(OverOf(b), "False") \o GenerateSet(PressedOf(b), "True")
              \o GenerateSet(DisabledOf(b), "False")]

\* a plausible slip: the release handler is emitted without clicked.emit()
MouseReleaseCodeNoEmit(b) ==
    [guarded |-> TRUE,
     body |-> GenerateSet(OverOf(b), "True") \o GenerateSet(PressedOf(b), "False")
              \o GenerateSet(DisabledOf(b), "False")]

\* lines 61-66: __<name>_mouse_release
MouseReleaseCode(b) ==
    [guarded |-> TRUE,
     body |-> GenerateSet(OverOf(b), "True") \o GenerateSet(PressedOf(b), "False")
              \o GenerateSet(DisabledOf(b), "False")
              \o <<Statement("emitClicked", "")>>]

\* a plausible slip: the disable entry point leaves the enabled flag set
DisableCodeFlagKept(b) ==
    [guarded |-> FALSE,
     body |-> GenerateSet(OverOf(b), "False") \o GenerateSet(PressedOf(b), "False")
              \o GenerateSet(DisabledOf(b), "True")
              \o <<Statement("setMouseTracking", "False"), Statement("setFocusPolicy", "Qt.NoFocus"),
                   Statement("setStyleSheet", "background-color: rgba(255, 255, 255, 0);")>>]

\* lines 70-78: __<name>_disable
DisableCode(b) ==
    [guarded |-> FALSE,
     body |-> <<Statement("setEnabledFlag", "False")>>
              \o GenerateSet(OverOf(b), "False") \o GenerateSet(PressedOf(b), "False")
              \o GenerateSet(DisabledOf(b), "True")
              \o <<Statement("setMouseTracking", "False"), Statement("setFocusPolicy", "Qt.NoFocus"),
                   Statement("setStyleSheet", "background-color: rgba(255, 255, 255, 0);")>>]

\* lines 81-87: __<name>_enable
EnableCode(b) ==
    [guarded |-> FALSE,
     body |-> <<Statement("setEnabledFlag", "True")>>
              \o GenerateSet(OverOf(b), "False") \o GenerateSet(PressedOf(b), "False")
              \o GenerateSet(DisabledOf(b), "False")
              \o <<Statement("setMouseTracking", "True")>>]

\* what one emitted statement does to the widgets of a window
ExecStatement(ui, st) ==
    CASE st.op = "setVisible" -> [ui EXCEPT !.visible[st.widget] = (st.value = "True")]
      [] st.op = "setEnabledFlag" -> [ui EXCEPT !.enabled = (st.value = "True")]
      [] st.op = "setMouseTracking" -> [ui EXCEPT !.tracking = (st.value = "True")]
      [] st.op = "connectClicked" -> [ui EXCEPT !.connected = @ + 1]
      [] st.op = "emitClicked" -> [ui EXCEPT !.handler_calls = @ + ui.connected]
      [] st.op = "setStyleSheet" -> [ui EXCEPT !.style_sheet = st.value]
      [] OTHER -> ui

RECURSIVE ExecStatements(_, _)
ExecStatements(ui, code) ==
    IF code = <<>> THEN ui ELSE ExecStatements(ExecStatement(ui, Head(code)), Tail(code))

\* a callback: its body runs unless it is guarded and the button is disabled
RunCallback(ui, callback) ==
    IF callback.guarded /\ ~ ui.enabled THEN ui ELSE ExecStatements(ui, callback.body)

\* the widgets of a window before the button's setup code has run
FreshWidgets ==
    [status |-> "open", recorded |-> TRUE, enabled |-> FALSE, tracking |-> FALSE,
     connected |-> 0, handler_calls |-> 0, style_sheet |-> "",
     visible |-> [w \in ToggleWidgets |-> TRUE]]

\* a window whose setupUi raised: nothing was built, and the flag is not its
FailedWindow == [FreshWidgets EXCEPT !.status = "failed", !.recorded = FALSE]

\* a plausible slip: the guard sets the flag and never raises
SingletonGuardNoRaise(flag) == [flag |-> TRUE, raises |-> FALSE]

\* frame_generator.py lines 47-50: the guard at the head of setupUi
SingletonGuard(flag) ==
    IF ~ flag THEN [flag |-> TRUE, raises |-> FALSE] ELSE [flag |-> flag, raises |-> TRUE]

InitRuntime ==
    /\ \E k \in 4..MaxGroupChildren :
          /\ gens = ButtonTree(k)
          /\ used_names = NamesOf(ButtonTree(k))
          /\ windows = MapSet(<<>>, 1, ButtonTree(k)[1].window_class_name)
    /\ calls = <<>>
    /\ scale = ScaleDen
    /\ observed = NoObservation
    /\ raised = NoException
    /\ RuntimeIdle
    /\ VectorIdle
    /\ PassesIdle

\* <window class>().setupUi(MainWindow) for a new main window
SetupUi ==
    LET guard == SingletonGuard(is_singleton_open)
    IN  /\ Len(instances) < MaxInstances
        /\ is_singleton_open' = guard.flag
        /\ instances' =
              Append(instances,
                     IF guard.raises THEN FailedWindow
                     ELSE ExecStatements(FreshWidgets, ButtonSetupCode(TheButton)))
        /\ UNCHANGED <<varsRegistry, varsTree, varsVector, varsPasses, clicks>>

\* frame_generator.py lines 61-64: MainWindow.closeEvent of a window that was
\* set up, shown or already closed.  The flag is cleared, whichever window
\* it stood for.
CloseEvent(i) ==
    /\ instances[i].status \in {"open", "closed"}
    /\ is_singleton_open' = FALSE
    /\ instances' = [k \in 1..Len(instances) |->
                        [instances[k] EXCEPT !.recorded = FALSE,
                                             !.status = IF k = i THEN "closed" ELSE @]]
    /\ UNCHANGED <<varsRegistry, varsTree, varsVector, varsPasses, clicks>>

\* a pointer event or a controller call reaching the button of a shown window
Deliver(i, callback) ==
    LET ran == RunCallback([instances[i] EXCEPT !.handler_calls = 0], callback)
    IN  /\ instances[i].status = "open"
        /\ clicks + ran.handler_calls <= MaxClicks
        /\ clicks' = clicks + ran.handler_calls
        /\ instances' = [instances EXCEPT ![i] = [ran EXCEPT !.handler_calls = 0]]
        /\ UNCHANGED <<varsRegistry, varsTree, varsVector, varsPasses, is_singleton_open>>

MouseOver(i) == Deliver(i, MouseOverCode(TheButton))
MouseLeave(i) == Deliver(i, MouseLeaveCode(TheButton))
MousePress(i) == Deliver(i, MousePressCode(TheButton))
MouseRelease(i) == Deliver(i, MouseReleaseCode(TheButton))
Disable(i) == Deliver(i, DisableCode(TheButton))
Enable(i) == Deliver(i, EnableCode(TheButton))

NextRuntime ==
    \/ SetupUi
    \/ \E i \in 1..Len(instances) : CloseEvent(i)
    \/ \E i \in 1..Len(instances) : MouseOver(i)
    \/ \E i \in 1..Len(instances) : MouseLeave(i)
    \/ \E i \in 1..Len(instances) : MousePress(i)
    \/ \E i \in 1..Len(instances) : MouseRelease(i)
    \/ \E i \in 1..Len(instances) : Disable(i)
    \/ \E i \in 1..Len(instances) : Enable(i)

SpecRuntime == InitRuntime /\ [][NextRuntime]_vars

(***************************************************************************)
(* SpecVector: vector nodes under one frame and their design production    *)
(***************************************************************************)
\* 1.0 as an opacity: opacities and alphas are counted in hundredths
OpacityUnit == 100

\* dict.get(key, default), the entry being <<>> when the key is absent
Get(entry, default) == IF entry = <<>> THEN default ELSE entry[1]

\* the product of two opacities
Times(x, y) == (x * y) \div OpacityUnit

\* n ** .5 for the squares the handle positions below give
Sqrt(n) == CHOOSE r \in 0..n : r * r <= n /\ n < (r + 1) * (r + 1)

\* graphic descriptors of a figma document
Solid(opacity, a) ==
    [type |-> "SOLID", opacity |-> opacity, a |-> a, imageRef |-> <<>>,
     gradientHandlePositions |-> <<>>, gradientStops |-> <<>>]
Image(opacity) ==
    [type |-> "IMAGE", opacity |-> opacity, a |-> <<>>, imageRef |-> <<"r">>,
     gradientHandlePositions |-> <<>>, gradientStops |-> <<>>]
Gradient(type, opacity) ==
    [type |-> type, opacity |-> opacity, a |-> <<>>, imageRef |-> <<>>,
     gradientHandlePositions |-> <<[x |-> 0, y |-> 0], [x |-> 3, y |-> 4], [x |-> 6, y |-> 8]>>,
     gradientStops |-> <<[position |-> 0, a |-> <<>>], [position |-> 1, a |-> <<40>>]>>]

\* the fills of the vector nodes generated in SpecVector, with their
\* geometry: solids with and without opacity and alpha, an image, both
\* gradients, and two kinds the match statement has no case for
FillCases ==
    { [graphics |-> <<Solid(<<>>, <<>>)>>, geometry |-> <<"f1">>],
      [graphics |-> <<Solid(<<50>>, <<40>>)>>, geometry |-> <<"f1">>],
      [graphics |-> <<Solid(<<>>, <<40>>), Gradient("GRADIENT_ANGULAR", <<>>),
                      Gradient("GRADIENT_LINEAR", <<50>>)>>,
       geometry |-> <<"f1", "f2", "f3">>],
      [graphics |-> <<Gradient("GRADIENT_RADIAL", <<>>), Image(<<50>>),
                      Solid(<<50>>, <<100>>)>>,
       geometry |-> <<"f1", "f2", "f3">>],
      [graphics |-> <<Gradient("GRADIENT_LINEAR", <<>>), Gradient("GRADIENT_RADIAL", <<50>>)>>,
       geometry |-> <<"f1", "f2">>] }

\* the strokes: none, a solid with one geometry more than strokes, and a
\* kind that is not recognised
StrokeCases ==
    { [graphics |-> <<>>, geometry |-> <<>>, weight |-> <<>>],
      [graphics |-> <<Solid(<<50>>, <<>>)>>, geometry |-> <<"s1", "s2">>, weight |-> <<2>>],
      [graphics |-> <<Gradient("EMOJI", <<>>)>>, geometry |-> <<"s1">>, weight |-> <<2>>] }

VectorFigmaNode(id, fills, strokes) ==
    [id |-> id, name |-> <<"a">>, box |-> Box(100, 50, 200, 100),
     fills |-> fills.graphics, fillGeometry |-> fills.geometry,
     strokes |-> strokes.graphics, strokeGeometry |-> strokes.geometry,
     strokeWeight |-> strokes.weight]

\* zip(geometry, graphics): pairs up to the shorter of the two
Zip(geometry, graphics) ==
    LET len == IF Len(geometry) < Len(graphics) THEN Len(geometry) ELSE Len(graphics)
    IN  [k \in 1..len |-> [path_data |-> geometry[k], graphic |-> graphics[k]]]

\* f'gradient{graphic_counter}', f'img{graphic_counter}', f'file{svg_counter}.svg'
GradientId(counter) == <<"g", "r", "a", "d", "i", "e", "n", "t">> \o IntToStr(counter)
ImgId(counter) == <<"i", "m", "g">> \o IntToStr(counter)
UrlOf(id) == <<"u", "r", "l", "(", "#">> \o id \o <<")">>
SvgFilename(counter) == <<"f", "i", "l", "e">> \o IntToStr(counter) \o <<".", "s", "v", "g">>

\* one line of markup; path_data is the argument of the generate_path call
\* that yielded the line, whether the line prints it or not
SvgLine(tag, path_data) ==
    [tag |-> tag, path_data |-> path_data, id |-> <<>>, fill |-> <<>>, opacity |-> 0,
     stroke_width |-> 0, geometry |-> <<>>]

\* the <stop> lines of a gradient
StopLines(path_data, stops, opacity) ==
    [s \in 1..Len(stops) |->
        [SvgLine("stop", path_data) EXCEPT
            !.geometry = <<stops[s].position>>,
            !.opacity = Times(opacity, Get(stops[s].a, OpacityUnit))]]

\* a plausible slip: the counter is left as it is
GraphicCounterKept(counter) == counter

\* line 54: cls.graphic_counter += 1
GraphicCounterNext(counter) == counter + 1

\* a plausible slip: the graphic is drawn as a plain path
UnknownKindDrawn(path_data, graphic) ==
    [lines |-> <<SvgLine("path", path_data)>>, warnings |-> <<graphic.type>>]

\* lines 103-105: the warning, and a generator that yields nothing
UnknownKind(path_data, graphic) == [lines |-> <<>>, warnings |-> <<graphic.type>>]

\* SvgGenerator.generate_path, run to its end: the lines yielded, the
\* counter and the warnings logged
GeneratePath(figma_node, path_data, graphic, counter) ==
    LET id == GraphicCounterNext(counter)
        stroke_width == Get(figma_node.strokeWeight, 0)
        opacity == Get(graphic.opacity, OpacityUnit)
        box == AbsoluteBoundingBox(figma_node)
        handles == graphic.gradientHandlePositions
        path(fill, o) == [SvgLine("path", path_data) EXCEPT
                              !.fill = fill, !.opacity = o, !.stroke_width = stroke_width]
        drawn(lines) == [lines |-> lines, graphic_counter |-> id, warnings |-> <<>>]
    IN  CASE graphic.type = "SOLID" ->
                drawn(<<path(<<"#">>, Times(opacity, Get(graphic.a, 0)))>>)
          [] graphic.type = "IMAGE" ->
                drawn(<<[SvgLine("image", path_data) EXCEPT
                            !.id = ImgId(id), !.opacity = opacity,
                            !.geometry = <<0, 0, box.width, box.height>>]>>)
          [] graphic.type = "GRADIENT_LINEAR" ->
                drawn(<<[SvgLine("linearGradient", path_data) EXCEPT
                            !.id = GradientId(id),
                            !.geometry = <<handles[1].x, handles[1].y,
                                           handles[2].x, handles[2].y>>]>>
                      \o StopLines(path_data, graphic.gradientStops, opacity)
                      \o <<SvgLine("/linearGradient", path_data),
                           path(UrlOf(GradientId(id)), opacity)>>)
          [] graphic.type = "GRADIENT_RADIAL" ->
                LET p0 == handles[1]
                    p1 == handles[Len(handles)]
                    radius == Sqrt((p0.x - p1.x) * (p0.x - p1.x) + (p0.y - p1.y) * (p0.y - p1.y))
                IN  drawn(<<[SvgLine("radialGradient", path_data) EXCEPT
                                !.id = GradientId(id),
                                !.geometry = <<p0.x, p0.y, radius>>]>>
                          \o StopLines(path_data, graphic.gradientStops, opacity)
                          \o <<SvgLine("/radialGradient", path_data),
                               path(UrlOf(GradientId(id)), opacity)>>)
          [] OTHER ->
                [lines |-> UnknownKind(path_data, graphic).lines,
                 graphic_counter |-> id,
                 warnings |-> UnknownKind(path_data, graphic).warnings]

\* the (geometry, graphic) pairs in the order create_svg_file walks them
PairsOf(figma_node) ==
    Zip(figma_node.fillGeometry, figma_node.fills)
        \o Zip(figma_node.strokeGeometry, figma_node.strokes)

\* lines 29-37: generate_path for the first k pairs, the lines appended
RECURSIVE PathsOf(_, _, _, _)
PathsOf(figma_node, pairs, k, counter) ==
    IF k = 0
    THEN [lines |-> <<>>, graphic_counter |-> counter, warnings |-> <<>>]
    ELSE LET before == PathsOf(figma_node, pairs, k - 1, counter)
             this == GeneratePath(figma_node, pairs[k].path_data, pairs[k].graphic,
                                  before.graphic_counter)
         IN  [lines |-> before.lines \o this.lines,
              graphic_counter |-> this.graphic_counter,
              warnings |-> before.warnings \o this.warnings]

\* SvgGenerator.create_svg_file: the file written, the counter and the
\* warnings after it
CreateSvgFile(figma_node, filename, counter) ==
    LET pairs == PairsOf(figma_node)
        paths == PathsOf(figma_node, pairs, Len(pairs), counter)
    IN  [file |-> [filename |-> filename, lines |-> paths.lines],
         graphic_counter |-> paths.graphic_counter,
         warnings |-> paths.warnings]

\* the frame every vector node of SpecVector sits in
FrameTree ==
    LET g1 == WithFrame(<<>>, PlainFigmaNode(1), CreateNameResult(<<"a">>, {}))
    IN  WithFrameDesign(g1, 1, CreateNameResult(<<"a">>, NamesOf(g1)))

InitVector ==
    /\ gens = FrameTree
    /\ used_names = NamesOf(FrameTree)
    /\ windows = MapSet(<<>>, 1, FrameTree[1].window_class_name)
    /\ calls = <<>>
    /\ scale = ScaleDen
    /\ observed = NoObservation
    /\ raised = NoException
    /\ RuntimeIdle
    /\ VectorIdle
    /\ PassesIdle

\* VectorGenerator(figma_node, parent): a vector node under the frame's
\* factory node, its fills and strokes among the given cases
NewVectorOf(fillCases, strokeCases, max) ==
    \E fills \in fillCases, strokes \in strokeCases :
        LET figma_node == VectorFigmaNode(Len(gens) + 1, fills, strokes)
            name == CreateNameResult(figma_node.name, used_names)
        IN  /\ Len(gens) >= Len(FrameTree)
            /\ Len(gens) < Len(FrameTree) + max
            /\ used_names' = used_names \cup {name}
            /\ gens' = WithGenerator(gens, "Vector", figma_node, Len(FrameTree), name)
            /\ UNCHANGED <<calls, scale, observed, windows, raised, varsRuntime,
                           varsVector, varsPasses>>

NewVector == NewVectorOf(FillCases, StrokeCases, MaxVectorNodes)

\* the vector node the design pass reaches next: the nodes are visited in
\* the order they were built, each once
NextVector == Len(FrameTree) + Len(design_stream) + 1

\* VectorGenerator.generate_design, iterated to its end
VectorGenerateDesign ==
    LET self == NextVector
        counter == svg_counter + 1
        svg_filename == SvgFilename(counter)
        written == CreateSvgFile(gens[self].figma_node, svg_filename, graphic_counter)
        box == AbsoluteBoundingBox(gens[self].figma_node)
    IN  /\ self <= Len(gens)
        /\ svg_counter' = counter
        /\ graphic_counter' = written.graphic_counter
        /\ warnings' = warnings \o written.warnings
        /\ svg_files' = Append(svg_files, written.file)
        /\ design_stream' =
              Append(design_stream,
                     [node |-> self,
                      q_widget_name |-> gens[self].q_widget_name,
                      parent |-> gens[gens[self].parent].q_widget_name,
                      geometry |-> PyqtBounds(self),
                      svg_geometry |-> <<0, 0, IntOf(box.width * scale), IntOf(box.height * scale)>>,
                      load |-> <<"s", "v", "g", "/">> \o svg_filename])
        /\ UNCHANGED <<varsRegistry, varsTree, varsRuntime, varsPasses>>

NextVectorStep == NewVector \/ VectorGenerateDesign

SpecVector == InitVector /\ [][NextVectorStep]_vars

(***************************************************************************)
(* SpecRuns: one document after another generated in one process           *)
(***************************************************************************)
\* the vector nodes of the documents generated in SpecRuns
RunFillCases == {c \in FillCases : Len(c.graphics) <= 2}
RunStrokeCases == {c \in StrokeCases : c.graphics = <<>>}

\* a run starts: FrameGenerator(document) and the frame's generate_design,
\* which builds the factory node under it.  The class attributes are what
\* the runs before left in them: nothing in the source assigns them anew.
BeginRun ==
    LET figma_node == PlainFigmaNode(1)
        name == CreateNameResult(figma_node.name, used_names)
        g1 == WithFrame(<<>>, figma_node, name)
        factory == CreateNameResult(figma_node.name, used_names \cup {name})
    IN  /\ gens = <<>>
        /\ Len(runs) < MaxRuns
        /\ gens' = WithFrameDesign(g1, 1, factory)
        /\ used_names' = used_names \cup {name, factory}
        /\ windows' = MapSet(windows, figma_node.id, g1[1].window_class_name)
        /\ UNCHANGED <<calls, scale, observed, raised, varsRuntime, varsVector, varsPasses>>

NewRunVector == NewVectorOf(RunFillCases, RunStrokeCases, MaxRunVectors)

\* the run ends once every vector node has been visited: what it produced
\* is noted, and its generators are dropped
EndRun ==
    /\ gens # <<>>
    /\ NextVector > Len(gens)
    /\ runs' = Append(runs,
                      [document |-> [n \in 1..Len(gens) |-> gens[n].figma_node],
                       identifiers |-> [n \in 1..Len(gens) |-> gens[n].q_widget_name],
                       filenames |-> [i \in 1..Len(design_stream) |-> design_stream[i].load],
                       windows |-> windows])
    /\ gens' = <<>>
    /\ design_stream' = <<>>
    /\ UNCHANGED <<varsRegistry, scale, observed, windows, raised, varsRuntime,
                   graphic_counter, svg_counter, svg_files, warnings, attrs, emitted>>

NextRuns == BeginRun \/ NewRunVector \/ VectorGenerateDesign \/ EndRun

SpecRuns == Init /\ [][NextRuns]_vars

(***************************************************************************)
(* SpecPasses: the productions of a text and a button, run in any order    *)
(***************************************************************************)
\* the attributes a production may set: the class bodies only annotate them
NoAttrs ==
    [controller_set_text_function_name |-> <<>>,
     handler_click_function_name |-> <<>>,
     controller_enable_function_name |-> <<>>,
     controller_disable_function_name |-> <<>>]

SetTextSuffix == <<"_", "s", "e", "t", "_", "t", "e", "x", "t">>
ClickedSuffix == <<"_", "c", "l", "i", "c", "k", "e", "d">>
EnableSuffix == <<"_", "e", "n", "a", "b", "l", "e">>
DisableSuffix == <<"_", "d", "i", "s", "a", "b", "l", "e">>

\* a frame holding a button over a group of k children, and a text
PassesTree(k, name) ==
    LET g == ButtonTree(k)
    IN  WithGenerator(g, "Text", [PlainFigmaNode(Len(g) + 1) EXCEPT !.name = name], 2,
                      CreateNameResult(name, NamesOf(g)))

InitPasses ==
    /\ \E k \in 4..MaxGroupChildren, name \in NodeNames :
          /\ gens = PassesTree(k, name)
          /\ used_names = NamesOf(PassesTree(k, name))
          /\ windows = MapSet(<<>>, 1, PassesTree(k, name)[1].window_class_name)
          /\ attrs = [n \in 1..Len(PassesTree(k, name)) |-> NoAttrs]
    /\ calls = <<>>
    /\ scale = ScaleDen
    /\ observed = NoObservation
    /\ raised = NoException
    /\ RuntimeIdle
    /\ VectorIdle
    /\ runs = <<>>
    /\ emitted = <<>>

\* reading self.<attribute>: the value, or an AttributeError when no
\* production has assigned it yet
Unset(n, attributes) == {a \in attributes : attrs[n][a] = <<>>}

\* a production that reads attributes of node n and yields its lines, which
\* define or link the functions named
Produce(n, production, attributes) ==
    /\ raised = NoException
    /\ Len(emitted) < MaxEmitted
    /\ IF Unset(n, attributes) = {}
       THEN /\ emitted' = Append(emitted,
                                 [production |-> production, node |-> n,
                                  functions |-> {attrs[n][a] : a \in attributes}])
            /\ UNCHANGED raised
       ELSE /\ raised' = [node |-> n, production |-> production,
                          attribute |-> CHOOSE a \in Unset(n, attributes) : TRUE]
            /\ UNCHANGED emitted
    /\ UNCHANGED <<varsRegistry, gens, scale, observed, windows, varsRuntime, varsVector,
                   runs, attrs>>

\* TextGenerator.generate_design: line 42 sets the name, lines 86-89 define
\* and link the function
TextGenerateDesign(n) ==
    LET name == gens[n].q_widget_name \o SetTextSuffix
    IN  /\ gens[n].kind = "Text"
        /\ raised = NoException
        /\ Len(emitted) < MaxEmitted
        /\ attrs' = [attrs EXCEPT ![n].controller_set_text_function_name = name]
        /\ emitted' = Append(emitted, [production |-> "design", node |-> n,
                                       functions |-> {name}])
        /\ UNCHANGED <<varsRegistry, varsTree, varsRuntime, varsVector, runs>>

\* TextGenerator.generate_controller
TextGenerateController(n) ==
    /\ gens[n].kind = "Text"
    /\ Produce(n, "controller", {"controller_set_text_function_name"})

\* CustomButtonGenerator.generate_design: lines 22-24 set the names, lines
\* 90-125 link them
ButtonGenerateDesign(n) ==
    LET clicked == gens[n].q_widget_name \o ClickedSuffix
        enable == gens[n].q_widget_name \o EnableSuffix
        disable == gens[n].q_widget_name \o DisableSuffix
    IN  /\ gens[n].kind = "CustomButton"
        /\ raised = NoException
        /\ Len(emitted) < MaxEmitted
        /\ attrs' = [attrs EXCEPT ![n].handler_click_function_name = clicked,
                                  ![n].controller_enable_function_name = enable,
                                  ![n].controller_disable_function_name = disable]
        /\ emitted' = Append(emitted, [production |-> "design", node |-> n,
                                       functions |-> {clicked, enable, disable}])
        /\ UNCHANGED <<varsRegistry, varsTree, varsRuntime, varsVector, runs>>

\* CustomButtonGenerator.generate_handler
ButtonGenerateHandler(n) ==
    /\ gens[n].kind = "CustomButton"
    /\ Produce(n, "handler", {"handler_click_function_name"})

\* CustomButtonGenerator.generate_controller
ButtonGenerateController(n) ==
    /\ gens[n].kind = "CustomButton"
    /\ Produce(n, "controller",
               {"controller_enable_function_name", "controller_disable_function_name"})

NextPasses ==
    \/ \E n \in 1..Len(gens) : TextGenerateDesign(n)
    \/ \E n \in 1..Len(gens) : TextGenerateController(n)
    \/ \E n \in 1..Len(gens) : ButtonGenerateDesign(n)
    \/ \E n \in 1..Len(gens) : ButtonGenerateHandler(n)
    \/ \E n \in 1..Len(gens) : ButtonGenerateController(n)

SpecPasses == InitPasses /\ [][NextPasses]_vars

(***************************************************************************)
(* Properties of the registry                                              *)
(***************************************************************************)
Returned(k) == calls[k].ret
ReturnedBefore(k) == {calls[j].ret : j \in 1..(k - 1)}
FirstOfItsBase(k) == \A j \in 1..(k - 1) : calls[j].base # calls[k].base
SameBaseThroughout == \A j \in 1..Len(calls) : calls[j].base = calls[1].base

\* C1: every identifier create_name returns differs from every identifier it
\* returned earlier, and every identifier returned so far is still registered
\* (the registry only grows, nothing is handed out twice).
C1_NamesUnique ==
    /\ \A j, k \in 1..Len(calls) : j < k => Returned(j) # Returned(k)
    /\ \A k \in 1..Len(calls) : Returned(k) \in used_names
    /\ Cardinality(used_names) = Len(calls)

\* three calls with one base and a fourth whose base has the shape of a suffix
C1_Witness ==
    /\ Len(calls) = MaxCalls
    /\ \E j, k \in 1..Len(calls) : j < k /\ calls[j].base = calls[k].base
    /\ \E k \in 1..Len(calls) : calls[k].base = <<"a", "_", "0">>

\* C2: from an empty registry, N raw names with the same normalised base get
\* the base itself, then base_0, base_1, ..., base_(N-2), in call order.
C2_SameBaseSuffixes ==
    SameBaseThroughout =>
        \A k \in 1..Len(calls) :
            Returned(k) = IF k = 1 THEN calls[1].base
                          ELSE calls[1].base \o <<"_">> \o IntToStr(k - 2)

\* MaxCalls calls, differently spelled, all of base a
C2_Witness ==
    /\ Len(calls) = MaxCalls
    /\ SameBaseThroughout
    /\ calls[1].base = <<"a">>
    /\ \E j, k \in 1..Len(calls) : calls[j].raw # calls[k].raw
    /\ Returned(Len(calls)) = <<"a", "_">> \o IntToStr(MaxCalls - 2)

\* C3 as stated: the first call of every base returns the base un-suffixed.
C3_FirstOccurrenceUnsuffixed ==
    \A k \in 1..Len(calls) : FirstOfItsBase(k) => Returned(k) = calls[k].base

\* C3 amended: the first call of a base B returns B un-suffixed exactly when B
\* has not been returned before; when B was already handed out as the suffixed
\* identifier of another base, it returns B_i for the least i not yet
\* registered.
C3_FirstOccurrenceUnlessTaken ==
    \A k \in 1..Len(calls) :
        FirstOfItsBase(k) =>
            IF calls[k].base \notin ReturnedBefore(k)
            THEN Returned(k) = calls[k].base
            ELSE \E i \in 0..Len(calls) :
                    /\ Returned(k) = calls[k].base \o <<"_">> \o IntToStr(i)
                    /\ \A h \in 0..(i - 1) :
                          calls[k].base \o <<"_">> \o IntToStr(h) \in ReturnedBefore(k)

\* base a_0 first requested after a was requested twice: it gets a_0_0
C3_Witness ==
    \E k \in 1..Len(calls) :
        /\ FirstOfItsBase(k)
        /\ calls[k].base = <<"a", "_", "0">>
        /\ Returned(k) = <<"a", "_", "0", "_", "0">>

\* the normal form as the specification words it: non-empty, lowercase, only
\* alphanumerics and single underscores, no trailing underscore, and no
\* leading one except the one that stands before a leading digit
IsNormalizedForm(s) ==
    /\ s # <<>>
    /\ \A k \in 1..Len(s) : (IsAlnum(s[k]) /\ s[k] \notin UpperLetters) \/ s[k] = "_"
    /\ ~ \E k \in 1..(Len(s) - 1) : s[k] = "_" /\ s[k + 1] = "_"
    /\ s[Len(s)] # "_"
    /\ ~ IsDigit(s[1])
    /\ s[1] = "_" => (Len(s) >= 2 /\ IsDigit(s[2]))

\* C4: on an empty registry create_name returns a name in normal form, and a
\* raw name that already is in normal form is returned unchanged.
C4_NormalizeIdempotent ==
    Len(calls) >= 1 =>
        /\ IsNormalizedForm(calls[1].ret)
        /\ IsNormalizedForm(calls[1].raw) => calls[1].ret = calls[1].raw

\* the normal form with the prepended underscore, passed in and returned as is
C4_Witness ==
    /\ Len(calls) = 1
    /\ calls[1].raw = <<"_", "0">>
    /\ calls[1].ret = <<"_", "0">>

(***************************************************************************)
(* Properties of the geometry                                              *)
(***************************************************************************)
\* the node in whose children list n was recorded, 0 for a root
HolderOf(n) ==
    IF \E p \in 1..Len(gens) : \E k \in 1..Len(gens[p].children) : gens[p].children[k] = n
    THEN CHOOSE p \in 1..Len(gens) : \E k \in 1..Len(gens[p].children) : gens[p].children[k] = n
    ELSE 0

DocBox(n) == gens[n].figma_node.box
Coord(b, f) == IF b = NoBox THEN 0 ELSE b[f]

\* C5: bounds is ((child.x - parent.x) * scale, (child.y - parent.y) * scale,
\* child.width * scale, child.height * scale) against the immediate parent
\* (origin (0,0) for a root), exact; pyqt_bounds is its truncation to integers.
C5_BoundsRelativeToParent ==
    observed # NoObservation =>
        LET n == observed.node
            p == HolderOf(n)
            px == IF p = 0 THEN 0 ELSE Coord(DocBox(p), "x")
            py == IF p = 0 THEN 0 ELSE Coord(DocBox(p), "y")
            ex == (Coord(DocBox(n), "x") - px) * scale
            ey == (Coord(DocBox(n), "y") - py) * scale
            ew == Coord(DocBox(n), "width") * scale
            eh == Coord(DocBox(n), "height") * scale
        IN  /\ observed.bounds = <<ex, ey, ew, eh>>
            /\ \A k \in 1..4 :
                  LET v == observed.bounds[k]
                      q == observed.qrect[k]
                  IN  IF v >= 0
                      THEN q * ScaleDen <= v /\ v < (q + 1) * ScaleDen
                      ELSE (q - 1) * ScaleDen < v /\ v <= q * ScaleDen

\* the worked example, two levels below a root placed elsewhere: child
\* (110,60,10,20) under a parent at (100,50) with scale 2 reads (20,20,20,40)
C5_Witness ==
    /\ observed # NoObservation
    /\ scale = 2 * ScaleDen
    /\ DocBox(observed.node) = Box(110, 60, 10, 20)
    /\ gens[observed.node].parent # 0
    /\ DocBox(gens[observed.node].parent) = Box(100, 50, 200, 100)
    /\ gens[gens[observed.node].parent].parent # 0
    /\ DocBox(gens[gens[observed.node].parent].parent) = Box(-3, 7, 5, 1)
    /\ observed.bounds = <<20 * ScaleDen, 20 * ScaleDen, 20 * ScaleDen, 40 * ScaleDen>>
    /\ observed.qrect = <<20, 20, 20, 40>>

(***************************************************************************)
(* Properties of the tree                                                  *)
(***************************************************************************)
ClassPaths(n) ==
    <<gens[n].handler_class_path, gens[n].controller_class_path,
      gens[n].strings_class_path, gens[n].config_class_path>>

\* the path a frame inherited: its parent's, empty for a root
InheritedPaths(f) ==
    IF gens[f].parent = 0 THEN <<<<>>, <<>>, <<>>, <<>>>> ELSE ClassPaths(gens[f].parent)

\* the namespace of a frame: <ShortName>Handler / Controller / Strings / Config
\* appended to the paths the frame inherited
FrameNamespace(f) ==
    LET short == gens[f].short_class_name
        inherited == InheritedPaths(f)
    IN  <<Append(inherited[1], short \o HandlerSuffix),
          Append(inherited[2], short \o ControllerSuffix),
          Append(inherited[3], short \o StringsSuffix),
          Append(inherited[4], short \o ConfigSuffix)>>

\* C6: the four class paths of a non-root node are its parent's, except
\* directly under a frame, where they are the frame's own namespace - whenever
\* the child was built relative to the frame's design pass.
C6_NamespaceInheritance ==
    \A n \in 1..Len(gens) :
        gens[n].parent # 0 =>
            IF gens[gens[n].parent].kind = "Frame"
            THEN ClassPaths(n) = FrameNamespace(gens[n].parent)
            ELSE ClassPaths(n) = ClassPaths(gens[n].parent)

Buttons == {n \in 1..Len(gens) : gens[n].kind = "CustomButton"}

\* the toggles of button b are the last three children its group had when b
\* was built: disabled, pressed, over at positions j, j+1, j+2 of a group's
\* children, at least four children up to there, everything behind built later
BoundFromTheEnd(b) ==
    \E g \in Groups :
        \E j \in 1..(Len(gens[g].children) - 2) :
            /\ j + 2 >= 4
            /\ gens[g].children[j] = gens[b].hide_show_disabled_generator
            /\ gens[g].children[j + 1] = gens[b].hide_show_pressed_generator
            /\ gens[g].children[j + 2] = gens[b].hide_show_mouse_over_generator
            /\ gens[g].children[j + 2] < b
            /\ \A k \in (j + 3)..Len(gens[g].children) : gens[g].children[k] > b

NodesKept ==
    \A n \in 1..Len(gens) :
        /\ gens'[n].q_widget_name = gens[n].q_widget_name
        /\ gens'[n].children = gens[n].children
        /\ ClassPaths(n) =
              <<gens'[n].handler_class_path, gens'[n].controller_class_path,
                gens'[n].strings_class_path, gens'[n].config_class_path>>

\* C15: running a production on a built tree leaves every node's identifier,
\* children and four class paths unchanged and creates no node and no
\* identifier; so a frame's design production run twice leaves what one run
\* leaves.
C15_ProductionsLeaveTree ==
    [][FrameGenerateDesign =>
          /\ Len(gens') = Len(gens)
          /\ used_names' = used_names
          /\ NodesKept
      ]_vars

\* C17: a custom button refused for its child count leaves the registry and
\* every children list as they were before the call.
C17_RefusedButtonLeavesNoTrace ==
    [][(raised = NoException /\ raised' # NoException) =>
          /\ used_names' = used_names
          /\ \A n \in 1..Len(gens) : gens'[n].children = gens[n].children
      ]_vars

(***************************************************************************)
(* Properties of the generated program                                     *)
(***************************************************************************)
\* the widgets of the last, second-to-last and third-to-last child of the group
OverWidget == gens[FromEnd(gens[TheGroup].children, 1)].q_widget_name
PressedWidget == gens[FromEnd(gens[TheGroup].children, 2)].q_widget_name
DisabledWidget == gens[FromEnd(gens[TheGroup].children, 3)].q_widget_name

\* the visibilities (over, pressed, disabled) of window i
Shown(w) == <<w.visible[OverWidget], w.visible[PressedWidget], w.visible[DisabledWidget]>>

Windows == 1..Len(instances)

\* C8: while the button is enabled, hover shows over only, leave hides all
\* three, press shows pressed only, release shows over only and calls the click
\* handler once; nothing but a release on an enabled button calls it.
C8_EnabledEventTable ==
    [][ /\ \A i \in Windows :
              instances[i].enabled =>
                 /\ MouseOver(i) =>
                       Shown(instances'[i]) = <<TRUE, FALSE, FALSE>> /\ clicks' = clicks
                 /\ MouseLeave(i) =>
                       Shown(instances'[i]) = <<FALSE, FALSE, FALSE>> /\ clicks' = clicks
                 /\ MousePress(i) =>
                       Shown(instances'[i]) = <<FALSE, TRUE, FALSE>> /\ clicks' = clicks
                 /\ MouseRelease(i) =>
                       Shown(instances'[i]) = <<TRUE, FALSE, FALSE>> /\ clicks' = clicks + 1
        /\ clicks' # clicks =>
              \E i \in Windows : instances[i].enabled /\ MouseRelease(i)
      ]_vars

\* a release has been answered: over is shown alone and one click was counted
C8_Witness ==
    /\ clicks = 1
    /\ \E i \in Windows :
          /\ instances[i].status = "open"
          /\ instances[i].enabled
          /\ Shown(instances[i]) = <<TRUE, FALSE, FALSE>>

\* window i is as it was and no click was counted
Untouched(i) == instances'[i] = instances[i] /\ clicks' = clicks

\* C9: disable leaves the button disabled with over and pressed hidden,
\* disabled shown and tracking off; enable leaves it enabled with disabled
\* hidden and tracking on; while it is disabled no pointer event changes a
\* visibility or counts a click; the disabled visual is shown exactly when the
\* button is disabled.
C9_DisabledStateMachine ==
    /\ [](\A i \in Windows :
             instances[i].status # "failed" =>
                (instances[i].visible[DisabledWidget] <=> ~ instances[i].enabled))
    /\ [][ \A i \in Windows :
              /\ Disable(i) =>
                    /\ ~ instances'[i].enabled
                    /\ Shown(instances'[i]) = <<FALSE, FALSE, TRUE>>
                    /\ ~ instances'[i].tracking
              /\ Enable(i) =>
                    /\ instances'[i].enabled
                    /\ ~ instances'[i].visible[DisabledWidget]
                    /\ instances'[i].tracking
              /\ ~ instances[i].enabled =>
                    /\ MouseOver(i) => Untouched(i)
                    /\ MouseLeave(i) => Untouched(i)
                    /\ MousePress(i) => Untouched(i)
                    /\ MouseRelease(i) => Untouched(i)
         ]_vars

\* a button that was clicked, then disabled: the disabled visual alone is shown
C9_Witness ==
    /\ clicks >= 1
    /\ \E i \in Windows :
          /\ instances[i].status = "open"
          /\ ~ instances[i].enabled
          /\ ~ instances[i].tracking
          /\ Shown(instances[i]) = <<FALSE, FALSE, TRUE>>

\* the windows the flag stands for
Recorded == {i \in Windows : instances[i].recorded}

\* C10: the window guard starts closed; setupUi while closed opens, setupUi
\* while open raises and stays open; a close event always leaves it closed, and
\* a window can then be opened again; at most one window is recorded as open.
C10_SingletonGuard ==
    /\ ~ is_singleton_open
    /\ [](/\ Cardinality(Recorded) <= 1
          /\ is_singleton_open <=> Recorded # {})
    /\ [][ /\ SetupUi =>
                 /\ is_singleton_open'
                 /\ instances'[Len(instances')].status =
                        IF is_singleton_open THEN "failed" ELSE "open"
           /\ \A i \in Windows : CloseEvent(i) => ~ is_singleton_open'
         ]_vars

\* a second window was refused while the first was open, and the first was
\* then closed
C10_Witness ==
    /\ Len(instances) = 2
    /\ instances[1].status = "closed"
    /\ instances[2].status = "failed"
    /\ ~ is_singleton_open

(***************************************************************************)
(* Properties of the vector files                                          *)
(***************************************************************************)
\* the figma node the i-th file was written for
NodeOfFile(i) == gens[design_stream[i].node].figma_node

\* the lines of the i-th file that generate_path yielded for one path
LinesFor(i, path_data) ==
    SelectSeq(svg_files[i].lines, LAMBDA line : line.path_data = path_data)

\* C11: a SOLID graphic is written as a path whose fill-opacity and
\* stroke-opacity are the graphic's opacity times the colour's alpha, each
\* taken as 1 when it is absent.
C11_SolidOpacity ==
    \A i \in 1..Len(svg_files) :
        \A p \in 1..Len(PairsOf(NodeOfFile(i))) :
            LET pair == PairsOf(NodeOfFile(i))[p]
                opacity == IF pair.graphic.opacity = <<>> THEN OpacityUnit
                           ELSE pair.graphic.opacity[1]
                alpha == IF pair.graphic.a = <<>> THEN OpacityUnit ELSE pair.graphic.a[1]
            IN  pair.graphic.type = "SOLID" =>
                    LET lines == LinesFor(i, pair.path_data)
                    IN  /\ Len(lines) = 1
                        /\ lines[1].tag = "path"
                        /\ lines[1].opacity * OpacityUnit = opacity * alpha

Recognised == {"SOLID", "IMAGE", "GRADIENT_LINEAR", "GRADIENT_RADIAL"}

\* the paths whose graphic is of a recognised kind, in document order
KnownPaths(geometry, graphics) ==
    LET known == SelectSeq(Zip(geometry, graphics),
                           LAMBDA pair : pair.graphic.type \in Recognised)
    IN  [k \in 1..Len(known) |-> known[k].path_data]

\* the types of the graphics of no recognised kind, in document order
UnknownTypes(geometry, graphics) ==
    LET unknown == SelectSeq(Zip(geometry, graphics),
                             LAMBDA pair : pair.graphic.type \notin Recognised)
    IN  [k \in 1..Len(unknown) |-> unknown[k].graphic.type]

\* the paths the lines were yielded for, each run of one path counted once
RECURSIVE PathsDrawn(_)
PathsDrawn(lines) ==
    IF lines = <<>> THEN <<>>
    ELSE LET rest == PathsDrawn(Tail(lines))
         IN  IF rest # <<>> /\ rest[1] = lines[1].path_data
             THEN rest ELSE <<lines[1].path_data>> \o rest

HasUnknown(figma_node) ==
    UnknownTypes(figma_node.fillGeometry, figma_node.fills)
        \o UnknownTypes(figma_node.strokeGeometry, figma_node.strokes) # <<>>

\* C12: the design production of a vector node raises nothing whatever the
\* kinds of its graphics are; it writes one file holding markup for exactly
\* the recognised (geometry, graphic) pairs, fills before strokes, in order,
\* logs one warning per unrecognised graphic, and yields the node's design
\* lines, which load that file.
C12_UnknownKindSkipped ==
    [][VectorGenerateDesign =>
          LET figma_node == gens[NextVector].figma_node
              file == svg_files'[Len(svg_files')]
              entry == design_stream'[Len(design_stream')]
          IN  /\ raised' = NoException
              /\ Len(svg_files') = Len(svg_files) + 1
              /\ PathsDrawn(file.lines) =
                    KnownPaths(figma_node.fillGeometry, figma_node.fills)
                        \o KnownPaths(figma_node.strokeGeometry, figma_node.strokes)
              /\ warnings' = warnings
                    \o UnknownTypes(figma_node.fillGeometry, figma_node.fills)
                    \o UnknownTypes(figma_node.strokeGeometry, figma_node.strokes)
              /\ Len(design_stream') = Len(design_stream) + 1
              /\ entry.node = NextVector
              /\ entry.load = <<"s", "v", "g", "/">> \o file.filename
      ]_vars

\* a node with an unrecognised fill between two recognised ones was written,
\* both of them drawn, and a sibling after it was written with markup too
C12_Witness ==
    \E i \in 1..Len(svg_files) :
        /\ UnknownTypes(NodeOfFile(i).fillGeometry, NodeOfFile(i).fills) # <<>>
        /\ \E k \in 1..Len(PathsDrawn(svg_files[i].lines)) :
              PathsDrawn(svg_files[i].lines)[k] = NodeOfFile(i).fillGeometry[3]
        /\ warnings # <<>>
        /\ \E j \in (i + 1)..Len(svg_files) :
              /\ svg_files[j].lines # <<>>
              /\ design_stream[j].node > design_stream[i].node

GradientTags == {"linearGradient", "radialGradient"}

\* the gradient definitions written so far: <<file, line>>
GradientDefs ==
    UNION {{<<i, l>> : l \in {m \in 1..Len(svg_files[i].lines) :
                                  svg_files[i].lines[m].tag \in GradientTags}} :
           i \in 1..Len(svg_files)}

\* the last gradient definition of file i before line l, 0 if there is none
RECURSIVE DefBefore(_, _)
DefBefore(i, l) ==
    IF l = 1 THEN 0
    ELSE IF svg_files[i].lines[l - 1].tag \in GradientTags THEN l - 1
    ELSE DefBefore(i, l - 1)

FilesInStep ==
    /\ Len(svg_files) = Len(design_stream)
    /\ \A i \in 1..Len(svg_files) :
          /\ gens[design_stream[i].node].kind = "Vector"
          /\ design_stream[i].load = <<"s", "v", "g", "/">> \o svg_files[i].filename
    /\ \A i, j \in 1..Len(svg_files) :
          i # j => /\ design_stream[i].node # design_stream[j].node
                   /\ svg_files[i].filename # svg_files[j].filename

GradientIdsUnique ==
    \A d, e \in GradientDefs :
        d # e => svg_files[d[1]].lines[d[2]].id # svg_files[e[1]].lines[e[2]].id

GradientRefsResolve ==
    \A i \in 1..Len(svg_files) :
        \A l \in 1..Len(svg_files[i].lines) :
            LET line == svg_files[i].lines[l]
            IN  (line.tag = "path" /\ Len(line.fill) > 1) =>
                    /\ DefBefore(i, l) # 0
                    /\ line.fill = UrlOf(svg_files[i].lines[DefBefore(i, l)].id)
                    /\ \A m \in (DefBefore(i, l) + 1)..(l - 1) :
                          svg_files[i].lines[m].tag \in
                              {"stop", "/linearGradient", "/radialGradient"}

\* C13: the counters only grow; one file is written per vector node
\* visited, no two files have the same name, no two gradient definitions
\* the same id, and every path filled with url(#gradientK) follows, in its
\* own file, the definition of gradientK with nothing but that gradient's
\* stops and closing tag in between.
C13_CountersGiveUniqueIds ==
    /\ [](FilesInStep /\ GradientIdsUnique /\ GradientRefsResolve)
    /\ [][svg_counter' >= svg_counter /\ graphic_counter' >= graphic_counter]_vars

\* two files are written, each defining a gradient, one of them two
C13_Witness ==
    /\ Len(svg_files) >= 2
    /\ \E d, e, f \in GradientDefs : d[1] # e[1] /\ f[1] = e[1] /\ f[2] # e[2]

(***************************************************************************)
(* Properties of the runs and the passes                                   *)
(***************************************************************************)
\* C14: between two runs the registry is empty, the file counter zero and
\* the window map empty, and two runs over the same document give the same
\* identifiers, the same file names and the same window map.
C14_RunsIndependent ==
    /\ (gens = <<>> /\ runs # <<>>) =>
          /\ used_names = {}
          /\ svg_counter = 0
          /\ windows = <<>>
    /\ \A i, j \in 1..Len(runs) :
          runs[i].document = runs[j].document =>
              /\ runs[i].identifiers = runs[j].identifiers
              /\ runs[i].filenames = runs[j].filenames
              /\ runs[i].windows = runs[j].windows

\* the function names the design production of node n sets and links
DesignNames(n) ==
    IF gens[n].kind = "Text" THEN [controller |-> {gens[n].q_widget_name \o SetTextSuffix},
                                   handler |-> {}]
    ELSE [controller |-> {gens[n].q_widget_name \o EnableSuffix,
                          gens[n].q_widget_name \o DisableSuffix},
          handler |-> {gens[n].q_widget_name \o ClickedSuffix}]

\* C16: whatever the order the productions are run in, none fails, and
\* the controller and handler productions of a text or a button define the
\* functions named as the node's design production names them.
C16_PassesInAnyOrder ==
    /\ raised = NoException
    /\ \A k \in 1..Len(emitted) :
          /\ emitted[k].production = "controller" =>
                emitted[k].functions = DesignNames(emitted[k].node).controller
          /\ emitted[k].production = "handler" =>
                emitted[k].functions = DesignNames(emitted[k].node).handler

====
